---- MODULE Spec2Model ----
(***************************************************************************)
(* A model of dag_checker.is_acyclic (src/dag_checker/dag_checker.py):     *)
(* Kahn's algorithm over the graph a list of (commit id, parent ids)       *)
(* declarations describes.  Every invocation has a frame of its own        *)
(* (parent_map, id_to_index, n, adj, in_degree, queue, visited_count); the *)
(* variables below are functions from invocations to the values of these   *)
(* locals.  Python's 0-based indices are kept: adj and in_degree are       *)
(* functions on 0..n-1.  A dict is a sequence of key/value entries in      *)
(* first-insertion order, which is the order Python iterates it in.        *)
(***************************************************************************)
EXTENDS Integers, Sequences, FiniteSets, TLC

\* ------------------------------------------------------------------ bounds

\* The commit ids the enumerated declaration sequences are written with, in
\* the order in which a sequence first uses them.
IdSeq == <<"A", "B", "C">>

\* Size of an enumerated declaration sequence: its number of declarations
\* plus the total number of parent entries.
MaxSize == 6

\* The same, for the declaration sequences of the fair specification.
MaxLiveSize == 5

\* The invocations: 1 is the only one Spec starts, SpecConc starts both.
Calls == {1, 2}

VARIABLES
    commit_list,    \* the argument of each invocation
    pc,             \* where each invocation is
    parent_map,     \* dict: commit id -> list object
    id_to_index,    \* dict: commit id -> index
    n,              \* len(id_to_index)
    adj,            \* adj[u]: the sequence of edge targets of u
    in_degree,      \* in_degree[v]
    queue,          \* the deque
    visited_count,
    visited,        \* history: the values `node` has taken, in order
    result,         \* the returned value, once pc = "done"
    error           \* the raised exception, once pc = "raised"

vars == <<commit_list, pc, parent_map, id_to_index, n, adj, in_degree, queue,
          visited_count, visited, result, error>>

\* ------------------------------------------------------------ declarations

Decl(id, parents) == [id |-> id, parents |-> parents]

Min(a, b) == IF a < b THEN a ELSE b

Max(a, b) == IF a < b THEN b ELSE a

\* is_acyclic only compares, hashes and stores the ids, and a dict iterates
\* in insertion order: renaming the ids of a sequence renames the run.  The
\* sequences enumerated are therefore the ones whose ids make their first
\* appearances in the order of IdSeq, one for every renaming class.

\* The parent lists of m entries after k ids have appeared, each with the
\* number of ids that have appeared after it.
RECURSIVE ListsOfLen(_, _)
ListsOfLen(m, k) ==
    IF m = 0 THEN {[list |-> <<>>, used |-> k]}
    ELSE UNION {{[list |-> <<IdSeq[i]>> \o r.list, used |-> r.used]
                    : r \in ListsOfLen(m - 1, Max(k, i))}
                : i \in 1..Min(k + 1, Len(IdSeq))}

\* The declaration sequences of size w after k ids have appeared.
RECURSIVE InputsOfSize(_, _)
InputsOfSize(w, k) ==
    IF w = 0 THEN {<<>>}
    ELSE UNION {UNION {{<<Decl(IdSeq[im[1]], r.list)>> \o s
                           : s \in InputsOfSize(w - 1 - im[2], r.used)}
                       : r \in ListsOfLen(im[2], Max(k, im[1]))}
                : im \in (1..Min(k + 1, Len(IdSeq))) \X (0..(w - 1))}

Inputs == UNION {InputsOfSize(w, 0) : w \in 0..MaxSize}

LiveInputs == UNION {InputsOfSize(w, 0) : w \in 0..MaxLiveSize}

\* ------------------------------------------------------------------- dicts

DictHas(m, k) == \E i \in 1..Len(m) : m[i].key = k

DictGet(m, k) == m[CHOOSE i \in 1..Len(m) : m[i].key = k].value

\* m[k] = v kept from the first assignment on: a later one is dropped.
DictSetDefault(m, k, v) ==
    IF DictHas(m, k) THEN m ELSE Append(m, [key |-> k, value |-> v])

\* m[k] = v: a present key keeps its place and takes the new value, a new key
\* goes last.
DictSet(m, k, v) ==
    IF DictHas(m, k)
    THEN [i \in 1..Len(m) |-> IF m[i].key = k THEN [key |-> k, value |-> v] ELSE m[i]]
    ELSE Append(m, [key |-> k, value |-> v])

\* ------------------------------------------------------ the steps' results

NoError == [type |-> "None", key |-> ""]

KeyError(k) == [type |-> "KeyError", key |-> k]

\* parents.copy(): a new list object with the items of the i-th declaration's
\* list, which is the caller's object <<"arg", i>>.
ListCopy(i, parents) == [items |-> parents, obj |-> <<"copy", i>>]

RECURSIVE ParentMapFrom(_, _, _)
ParentMapFrom(cl, i, m) ==
    IF i > Len(cl) THEN m
    ELSE ParentMapFrom(cl, i + 1,
                       DictSet(m, cl[i].id, ListCopy(i, cl[i].parents)))

\* Lines 5-7.
ParentMapOf(cl) == ParentMapFrom(cl, 1, <<>>)

RECURSIVE IndexFrom(_, _, _)
IndexFrom(pm, i, m) ==
    IF i > Len(pm) THEN m
    ELSE IndexFrom(pm, i + 1, DictSet(m, pm[i].key, i - 1))

\* Lines 12-14: enumerate(parent_map.keys()).
IndexOf(pm) == IndexFrom(pm, 1, <<>>)

\* The (cid, pid) pairs in the order lines 20 and 22 iterate them.
RECURSIVE EdgeList(_, _)
EdgeList(pm, i) ==
    IF i > Len(pm) THEN <<>>
    ELSE [j \in 1..Len(pm[i].value.items) |-> <<pm[i].key, pm[i].value.items[j]>>]
         \o EdgeList(pm, i + 1)

\* An edge whose target is the source is dropped.
AddEdgeNoSelf(st, u, v) ==
    IF u = v THEN st
    ELSE [st EXCEPT !.adj[u] = Append(@, v), !.in_degree[v] = @ + 1]

\* The in-degree counts a parent once per child, however often it is listed.
AddEdgeOnce(st, u, v) ==
    [st EXCEPT !.adj[u] = Append(@, v),
               !.in_degree[v] = IF \E j \in 1..Len(st.adj[u]) : st.adj[u][j] = v
                                THEN @ ELSE @ + 1]

\* Lines 24-25.
AddEdge(st, u, v) ==
    [st EXCEPT !.adj[u] = Append(@, v), !.in_degree[v] = @ + 1]

RECURSIVE AddEdges(_, _, _, _)
AddEdges(es, i, idx, st) ==
    IF i > Len(es) THEN st
    ELSE IF ~DictHas(idx, es[i][2]) THEN [st EXCEPT !.error = KeyError(es[i][2])]
    ELSE AddEdges(es, i + 1, idx,
                  AddEdge(st, DictGet(idx, es[i][1]), DictGet(idx, es[i][2])))

\* Lines 17-25: adj and in_degree, or the KeyError of line 23 with adj and
\* in_degree as they are when it is raised.
EdgesOf(pm, idx) ==
    AddEdges(EdgeList(pm, 1), 1, idx,
             [adj |-> [u \in 0..(Len(idx) - 1) |-> <<>>],
              in_degree |-> [u \in 0..(Len(idx) - 1) |-> 0],
              error |-> NoError])

\* Only index 0 is looked at.
SeedFirstOnly(deg, k) == IF deg[0] = 0 THEN <<0>> ELSE <<>>

RECURSIVE SeedFrom(_, _, _)
SeedFrom(deg, k, i) ==
    IF i >= k THEN <<>>
    ELSE (IF deg[i] = 0 THEN <<i>> ELSE <<>>) \o SeedFrom(deg, k, i + 1)

\* Lines 27-30.
SeedOf(deg, k) == SeedFrom(deg, k, 0)

\* A neighbour is appended at every decrement.
ShouldEnqueueAlways(d) == TRUE

\* Line 38.
ShouldEnqueue(d) == d = 0

RECURSIVE Relax(_, _, _)
Relax(st, nbs, j) ==
    IF j > Len(nbs) THEN st
    ELSE LET d == st.in_degree[nbs[j]] - 1
             st1 == [st EXCEPT !.in_degree[nbs[j]] = d,
                               !.queue = IF ShouldEnqueue(d) THEN Append(@, nbs[j]) ELSE @]
         IN Relax(st1, nbs, j + 1)

\* The front of the queue is read and left in the queue.
VisitPeek(st) ==
    Relax([st EXCEPT !.visited_count = @ + 1, !.visited = Append(@, Head(st.queue))],
          st.adj[Head(st.queue)], 1)

\* Lines 34-39: one iteration of the while loop.
VisitStep(st) ==
    Relax([st EXCEPT !.queue = Tail(@), !.visited_count = @ + 1,
                     !.visited = Append(@, Head(st.queue))],
          st.adj[Head(st.queue)], 1)

\* "Some node was visited."
VerdictAny(count, k) == count > 0

\* "No more nodes were visited than there are."
VerdictAtMost(count, k) == count <= k

\* Line 41.
Verdict(count, k) == count = k

\* Every invocation is given the value.
StoreShared(f, c, v) == [d \in DOMAIN f |-> v]

\* An assignment to a local of invocation c: the frame of c takes the value,
\* every other frame is left alone.
Store(f, c, v) == [f EXCEPT ![c] = v]

\* ------------------------------------------------------------- the actions

Idle == [c \in Calls |-> <<>>]

\* The invocations of `started` are at line 5, each with its argument; the
\* others are never made.
InitWith(cl, started) ==
    /\ commit_list = [c \in Calls |-> IF c \in started THEN cl[c] ELSE <<>>]
    /\ pc = [c \in Calls |-> IF c \in started THEN "start" ELSE "idle"]
    /\ parent_map = Idle
    /\ id_to_index = Idle
    /\ n = [c \in Calls |-> 0]
    /\ adj = Idle
    /\ in_degree = Idle
    /\ queue = Idle
    /\ visited_count = [c \in Calls |-> 0]
    /\ visited = Idle
    /\ result = [c \in Calls |-> FALSE]
    /\ error = [c \in Calls |-> NoError]

\* Lines 5-10.
BuildParentMap(c) ==
    /\ pc[c] = "start"
    /\ LET pm == ParentMapOf(commit_list[c]) IN
       /\ parent_map' = Store(parent_map, c, pm)
       /\ IF pm = <<>>
          THEN /\ result' = Store(result, c, TRUE)
               /\ pc' = Store(pc, c, "done")
          ELSE /\ result' = result
               /\ pc' = Store(pc, c, "index")
    /\ UNCHANGED <<commit_list, id_to_index, n, adj, in_degree, queue,
                   visited_count, visited, error>>

\* Lines 12-18.
AssignIndices(c) ==
    /\ pc[c] = "index"
    /\ LET idx == IndexOf(parent_map[c]) IN
       /\ id_to_index' = Store(id_to_index, c, idx)
       /\ n' = Store(n, c, Len(idx))
       /\ adj' = Store(adj, c, [u \in 0..(Len(idx) - 1) |-> <<>>])
       /\ in_degree' = Store(in_degree, c, [u \in 0..(Len(idx) - 1) |-> 0])
    /\ pc' = Store(pc, c, "edges")
    /\ UNCHANGED <<commit_list, parent_map, queue, visited_count, visited,
                   result, error>>

\* Lines 20-25.
BuildEdges(c) ==
    /\ pc[c] = "edges"
    /\ LET st == EdgesOf(parent_map[c], id_to_index[c]) IN
       /\ adj' = Store(adj, c, st.adj)
       /\ in_degree' = Store(in_degree, c, st.in_degree)
       /\ error' = Store(error, c, st.error)
       /\ pc' = Store(pc, c, IF st.error = NoError THEN "seed" ELSE "raised")
    /\ UNCHANGED <<commit_list, parent_map, id_to_index, n, queue,
                   visited_count, visited, result>>

\* Lines 27-32.
SeedQueue(c) ==
    /\ pc[c] = "seed"
    /\ queue' = Store(queue, c, SeedOf(in_degree[c], n[c]))
    /\ visited_count' = Store(visited_count, c, 0)
    /\ pc' = Store(pc, c, "loop")
    /\ UNCHANGED <<commit_list, parent_map, id_to_index, n, adj, in_degree,
                   visited, result, error>>

Frame(c) ==
    [adj |-> adj[c], in_degree |-> in_degree[c], queue |-> queue[c],
     visited_count |-> visited_count[c], visited |-> visited[c]]

\* Lines 33-39, one iteration.
Visit(c) ==
    /\ pc[c] = "loop"
    /\ queue[c] # <<>>
    /\ LET st == VisitStep(Frame(c)) IN
       /\ in_degree' = Store(in_degree, c, st.in_degree)
       /\ queue' = Store(queue, c, st.queue)
       /\ visited_count' = Store(visited_count, c, st.visited_count)
       /\ visited' = Store(visited, c, st.visited)
    /\ UNCHANGED <<commit_list, pc, parent_map, id_to_index, n, adj, result, error>>

\* Lines 33 and 41: the queue is empty.
Return(c) ==
    /\ pc[c] = "loop"
    /\ queue[c] = <<>>
    /\ result' = Store(result, c, Verdict(visited_count[c], n[c]))
    /\ pc' = Store(pc, c, "done")
    /\ UNCHANGED <<commit_list, parent_map, id_to_index, n, adj, in_degree,
                   queue, visited_count, visited, error>>

Step(c) ==
    \/ BuildParentMap(c)
    \/ AssignIndices(c)
    \/ BuildEdges(c)
    \/ SeedQueue(c)
    \/ Visit(c)
    \/ Return(c)

Next == \E c \in Calls : Step(c)

\* One invocation, of any declaration sequence up to MaxSize.
Init == \E s \in Inputs : InitWith([c \in Calls |-> s], {1})

Spec == Init /\ [][Next]_vars

\* One invocation, scheduled until it ends: a call runs on until it returns
\* or raises.
InitLive == \E s \in LiveInputs : InitWith([c \in Calls |-> s], {1})

FairSpec == InitLive /\ [][Next]_vars /\ \A c \in Calls : WF_vars(Step(c))

\* The declaration sequences of dag_checker_tests.py, and one with a parent
\* that is never declared.
Scenarios ==
    { <<Decl("root", <<>>)>>,
      <<Decl("a1", <<>>), Decl("b2", <<"a1">>), Decl("c3", <<"b2">>)>>,
      <<Decl("root", <<>>), Decl("x", <<"root">>), Decl("y", <<"root">>),
        Decl("m", <<"x", "y">>)>>,
      <<Decl("A", <<"B">>), Decl("B", <<"A">>)>>,
      <<Decl("root1", <<"mergeX">>), Decl("root2", <<>>), Decl("devA", <<"root1">>),
        Decl("devB", <<"devA">>), Decl("mergeX", <<"devB", "devA">>)>>,
      <<Decl("A", <<"B">>), Decl("B", <<"C">>), Decl("C", <<"A">>), Decl("A", <<"C">>)>>,
      <<Decl("A", <<"B">>), Decl("B", <<>>), Decl("A", <<>>)>>,
      <<Decl("A", <<"B">>)>> }

\* Two invocations, their steps interleaved in any order.
InitConc ==
    \E a \in Scenarios, b \in Scenarios :
        InitWith([c \in Calls |-> IF c = 1 THEN a ELSE b], {1, 2})

SpecConc == InitConc /\ [][Next]_vars

\* ------------------------------------------------- an invocation run alone

Returned(b) == [kind |-> "returned", result |-> b, error |-> NoError]

Raised(e) == [kind |-> "raised", result |-> FALSE, error |-> e]

RECURSIVE RunLoop(_)
RunLoop(st) == IF st.queue = <<>> THEN st ELSE RunLoop(VisitStep(st))

\* is_acyclic(cl), run from its first line to its last with nothing else
\* running: what it returns or raises.
RunOutcome(cl) ==
    LET pm == ParentMapOf(cl) IN
    IF pm = <<>> THEN Returned(TRUE)
    ELSE LET idx == IndexOf(pm)
             es == EdgesOf(pm, idx)
         IN IF es.error # NoError THEN Raised(es.error)
            ELSE LET fin == RunLoop([adj |-> es.adj, in_degree |-> es.in_degree,
                                     queue |-> SeedOf(es.in_degree, Len(idx)),
                                     visited_count |-> 0, visited |-> <<>>])
                 IN Returned(Verdict(fin.visited_count, Len(idx)))

\* What invocation c has returned or raised.
Outcome(c) ==
    IF pc[c] = "done" THEN Returned(result[c])
    ELSE IF pc[c] = "raised" THEN Raised(error[c])
    ELSE [kind |-> "running", result |-> FALSE, error |-> NoError]

Terminated(c) == pc[c] \in {"done", "raised"}

\* -------------------------------------------- the vocabulary of the claims

\* The graph a declaration sequence describes, as the data model of the
\* specification defines it: the nodes are the declared ids, and the last
\* declaration of an id gives one edge to each parent it lists.

SeqRange(s) == {s[i] : i \in 1..Len(s)}

NoDup(s) == \A i \in 1..Len(s), j \in 1..Len(s) : s[i] = s[j] => i = j

Occ(s, x) == Cardinality({i \in 1..Len(s) : s[i] = x})

DeclaredIds(cl) == {cl[i].id : i \in 1..Len(cl)}

LastIndex(cl, id) ==
    CHOOSE i \in 1..Len(cl) :
        cl[i].id = id /\ \A j \in (i + 1)..Len(cl) : cl[j].id # id

EffParents(cl, id) == cl[LastIndex(cl, id)].parents

GraphEdges(cl) ==
    UNION {{<<u, v>> : v \in SeqRange(EffParents(cl, u))} : u \in DeclaredIds(cl)}

Dangling(cl) == {e[2] : e \in GraphEdges(cl)} \ DeclaredIds(cl)

RECURSIVE TransClosure(_)
TransClosure(R) ==
    LET R2 == R \cup {<<p[1][1], p[2][2]>> : p \in {q \in R \X R : q[1][2] = q[2][1]}}
    IN IF R2 = R THEN R ELSE TransClosure(R2)

Paths(cl) == TransClosure(GraphEdges(cl))

CycleNodes(cl) == {u \in DeclaredIds(cl) : <<u, u>> \in Paths(cl)}

HasCycle(cl) == CycleNodes(cl) # {}

\* The nodes on a cycle and the nodes reachable from one.
Tainted(cl) ==
    CycleNodes(cl) \cup {e[2] : e \in {f \in Paths(cl) : f[1] \in CycleNodes(cl)}}

WithParents(cl, i, ps) == [cl EXCEPT ![i].parents = ps]

SameIdPairs(cl) ==
    {p \in (1..Len(cl)) \X (1..Len(cl)) : p[1] < p[2] /\ cl[p[1]].id = cl[p[2]].id}

\* The commit id invocation c gave index i.
NameOf(c, i) == parent_map[c][i + 1].key

VisitedIds(c) == {NameOf(c, visited[c][k]) : k \in 1..Len(visited[c])}

\* ------------------------------------------------------------------ claims

\* C1: when every effective parent id is a declared id (the empty sequence
\* included), is_acyclic returns, and it returns true exactly when the graph
\* of the last declaration of each id has no directed cycle.
C1_VerdictIffAcyclic ==
    \A c \in Calls :
        (Terminated(c) /\ Dangling(commit_list[c]) = {})
            => /\ pc[c] = "done"
               /\ result[c] = ~HasCycle(commit_list[c])

\* A cycle through three nodes has been reported.
C1_Witness ==
    /\ pc[1] = "done"
    /\ result[1] = FALSE
    /\ Cardinality(CycleNodes(commit_list[1])) = 3

\* C2: of several declarations of one id only the last one's parent list is
\* effective: parent_map holds, for every declared id, the items of its last
\* declaration, and the outcome is that of the sequence in which an earlier
\* declaration of the id is given the parent list of a later one.
C2_LastDeclarationWins ==
    \A c \in Calls :
        /\ pc[c] \notin {"idle", "start"} =>
              /\ {parent_map[c][i].key : i \in 1..Len(parent_map[c])}
                     = DeclaredIds(commit_list[c])
              /\ \A i \in 1..Len(parent_map[c]) :
                     parent_map[c][i].value.items
                         = EffParents(commit_list[c], parent_map[c][i].key)
        /\ Terminated(c) =>
              \A p \in SameIdPairs(commit_list[c]) :
                  Outcome(c) = RunOutcome(WithParents(commit_list[c], p[1],
                                                      commit_list[c][p[2]].parents))

\* An override with an empty parent list has removed the only cycle: with
\* the earlier parent list in both declarations the verdict is false.  With
\* the two parent lists exchanged the override creates the cycle instead.
C2_Witness ==
    /\ pc[1] = "done"
    /\ result[1] = TRUE
    /\ \E p \in SameIdPairs(commit_list[1]) :
          LET cl == commit_list[1]
              first == cl[p[1]].parents
          IN /\ cl[p[2]].parents = <<>>
             /\ RunOutcome(WithParents(cl, p[2], first)).result = FALSE
             /\ RunOutcome(WithParents(WithParents(cl, p[1], <<>>), p[2], first))
                    = Returned(FALSE)

\* C3: with an effective parent id that is never declared, the invocation
\* either returns the verdict of the graph extended by that id as a node
\* without parents, or reports a DanglingParentReference naming the id.
C3_DanglingPolicy ==
    \A c \in Calls :
        (Terminated(c) /\ Dangling(commit_list[c]) # {})
            => \/ /\ pc[c] = "done"
                  /\ result[c] = ~HasCycle(commit_list[c])
               \/ /\ pc[c] = "raised"
                  /\ error[c].type = "DanglingParentReference"
                  /\ error[c].key \in Dangling(commit_list[c])

HasSelfLoopDecl(cl) == \E i \in 1..Len(cl) : cl[i].id \in SeqRange(cl[i].parents)

EffSelfLoop(cl) == \E u \in DeclaredIds(cl) : u \in SeqRange(EffParents(cl, u))

\* C4, as stated: whenever some declaration lists its own id among its
\* parents, the value returned is false.
C4_AnySelfLoopDeclIsFalse ==
    \A c \in Calls :
        (pc[c] = "done" /\ HasSelfLoopDecl(commit_list[c])) => result[c] = FALSE

\* C4, amended: when the last declaration of some id lists that id among its
\* parents, the invocation does not return true: it returns false, or it
\* ends with the KeyError of an effective parent that is never declared.
C4_EffectiveSelfLoopIsFalse ==
    \A c \in Calls :
        (Terminated(c) /\ EffSelfLoop(commit_list[c]))
            => \/ pc[c] = "done" /\ result[c] = FALSE
               \/ pc[c] = "raised" /\ Dangling(commit_list[c]) # {}

\* A self-loop that overrides a declaration without one has been reported.
C4_Witness ==
    /\ pc[1] = "done"
    /\ result[1] = FALSE
    /\ EffSelfLoop(commit_list[1])
    /\ \E p \in SameIdPairs(commit_list[1]) :
          commit_list[1][p[1]].id \notin SeqRange(commit_list[1][p[1]].parents)

\* The declarations of cl in the order p gives.
Permute(cl, p) == [i \in 1..Len(cl) |-> cl[p[i]]]

Perms(k) == {p \in [1..k -> 1..k] : \A i \in 1..k, j \in 1..k : p[i] = p[j] => i = j}

DistinctIds(cl) == \A i \in 1..Len(cl), j \in 1..Len(cl) : cl[i].id = cl[j].id => i = j

\* A chain in chain order: distinct nodes, the first without parents, every
\* other one with exactly the previous node as its parent.
IsChain(cl) ==
    /\ Len(cl) >= 1
    /\ DistinctIds(cl)
    /\ cl[1].parents = <<>>
    /\ \A i \in 2..Len(cl) : cl[i].parents = <<cl[i - 1].id>>

IsChainPermutation(cl) ==
    /\ Len(cl) >= 1
    /\ DistinctIds(cl)
    /\ \E p \in Perms(Len(cl)) : IsChain(Permute(cl, p))

\* C5: a chain, its declarations given in any order, is reported acyclic; and
\* what a sequence of declarations of distinct ids yields (a verdict and
\* which, or a fault) is what every reordering of it yields.
C5_ChainAnyOrder ==
    \A c \in Calls :
        Terminated(c) =>
            /\ IsChainPermutation(commit_list[c]) => pc[c] = "done" /\ result[c] = TRUE
            /\ DistinctIds(commit_list[c]) =>
                  \A p \in Perms(Len(commit_list[c])) :
                      LET o == RunOutcome(Permute(commit_list[c], p))
                      IN o.kind = Outcome(c).kind /\ o.result = Outcome(c).result

\* A chain of three has been reported acyclic although its declarations are
\* out of chain order and the first node visited is not the first declared.
C5_Witness ==
    /\ pc[1] = "done"
    /\ result[1] = TRUE
    /\ Len(commit_list[1]) = 3
    /\ IsChainPermutation(commit_list[1])
    /\ ~IsChain(commit_list[1])
    /\ visited[1][1] # 0

\* i and j name a redirection the claim covers: node i to a later node j, or
\* the earliest node to the latest (which, in a chain of one, is itself).
Redirects(k, i, j) ==
    /\ i \in 1..k
    /\ j \in 1..k
    /\ i < j \/ (i = 1 /\ j = k)

\* A chain in which the parent list of one node was replaced, in place, by a
\* later node.
IsRedirectedInPlace(cl) ==
    /\ Len(cl) >= 1
    /\ DistinctIds(cl)
    /\ \E i \in 1..Len(cl), j \in 1..Len(cl) :
          /\ Redirects(Len(cl), i, j)
          /\ cl[i].parents = <<cl[j].id>>
          /\ IsChain(WithParents(cl, i, IF i = 1 THEN <<>> ELSE <<cl[i - 1].id>>))

\* A chain followed by a second declaration of one of its nodes, with a later
\* node as its only parent.
IsRedirectedByOverride(cl) ==
    /\ Len(cl) >= 2
    /\ IsChain(SubSeq(cl, 1, Len(cl) - 1))
    /\ \E i \in 1..(Len(cl) - 1), j \in 1..(Len(cl) - 1) :
          /\ Redirects(Len(cl) - 1, i, j)
          /\ cl[Len(cl)] = Decl(cl[i].id, <<cl[j].id>>)

\* C6: a chain in which the parent list of a node is redirected to a later
\* node (the earliest node to the latest in particular) is reported cyclic.
C6_RedirectedChainIsCyclic ==
    \A c \in Calls :
        (Terminated(c) /\ (\/ IsRedirectedInPlace(commit_list[c])
                           \/ IsRedirectedByOverride(commit_list[c])))
            => pc[c] = "done" /\ result[c] = FALSE

\* A chain of three with its middle node redirected to the last one has been
\* reported cyclic after the node upstream of the cycle was visited.
C6_Witness ==
    /\ pc[1] = "done"
    /\ result[1] = FALSE
    /\ Len(commit_list[1]) = 3
    /\ IsRedirectedInPlace(commit_list[1])
    /\ visited_count[1] >= 1

\* Where id u stands in the visiting order of invocation c.
PosOf(c, u) == CHOOSE k \in 1..Len(visited[c]) : NameOf(c, visited[c][k]) = u

\* C9: no node is visited before a node that lists it as a parent, and when
\* the traversal has ended the nodes never visited are exactly the nodes on a
\* directed cycle and the nodes reachable from one along child -> parent
\* edges.
C9_UnvisitedAreCycleAndDownstream ==
    \A c \in Calls :
        /\ pc[c] \in {"loop", "done"} /\ commit_list[c] # <<>> =>
              \A e \in GraphEdges(commit_list[c]) :
                  e[2] \in VisitedIds(c) =>
                      /\ e[1] \in VisitedIds(c)
                      /\ PosOf(c, e[1]) < PosOf(c, e[2])
        /\ pc[c] = "done" /\ commit_list[c] # <<>> =>
              DeclaredIds(commit_list[c]) \ VisitedIds(c) = Tainted(commit_list[c])

\* A traversal has ended with a node visited, a node on a cycle and a node
\* that is off every cycle but reachable from one.
C9_Witness ==
    /\ pc[1] = "done"
    /\ VisitedIds(1) # {}
    /\ CycleNodes(commit_list[1]) # {}
    /\ Tainted(commit_list[1]) # CycleNodes(commit_list[1])

RECURSIVE SumOver(_, _, _)
SumOver(S, cl, v) ==
    IF S = {} THEN 0
    ELSE LET u == CHOOSE x \in S : TRUE
         IN Occ(EffParents(cl, u), v) + SumOver(S \ {u}, cl, v)

\* The edge occurrences into v from the nodes of S.
IncomingFrom(S, cl, v) == SumOver(S, cl, v)

RECURSIVE DedupList(_)
DedupList(s) ==
    IF s = <<>> THEN <<>>
    ELSE LET front == DedupList(SubSeq(s, 1, Len(s) - 1))
         IN IF s[Len(s)] \in SeqRange(front) THEN front ELSE Append(front, s[Len(s)])

\* cl with every parent listed once in each parent list.
Dedup(cl) == [i \in 1..Len(cl) |-> Decl(cl[i].id, DedupList(cl[i].parents))]

\* C10: from the moment the edges are built, at every iteration of the loop
\* and at its end, the in-degree of a node is the number of occurrences of
\* the node in the effective parent lists of the nodes not yet visited (a
\* parent listed k times counts k times), and it is not negative; no node is
\* in the queue or visited twice; visited_count is the number of nodes
\* visited and at most n; and the outcome is that of the sequence with every
\* repeated parent listed once.
C10_ParallelEdgesCounted ==
    \A c \in Calls :
        /\ pc[c] \in {"seed", "loop", "done"} /\ commit_list[c] # <<>> =>
              /\ \A i \in 0..(n[c] - 1) :
                    /\ in_degree[c][i] =
                          IncomingFrom(DeclaredIds(commit_list[c]) \ VisitedIds(c),
                                       commit_list[c], NameOf(c, i))
                    /\ in_degree[c][i] >= 0
              /\ NoDup(visited[c] \o queue[c])
              /\ visited_count[c] = Len(visited[c])
              /\ visited_count[c] <= n[c]
        /\ Terminated(c) => Outcome(c) = RunOutcome(Dedup(commit_list[c]))

\* A node that lists one parent twice has been visited, and the parent,
\* decremented twice, is in the queue.
C10_Witness ==
    /\ pc[1] = "loop"
    /\ \E u \in VisitedIds(1), i \in 0..(n[1] - 1) :
          /\ Occ(EffParents(commit_list[1], u), NameOf(1, i)) = 2
          /\ in_degree[1][i] = 0
          /\ i \in SeqRange(queue[1])

\* C7: every invocation ends (it returns or, with a parent that is never
\* declared, raises before the loop is reached); an invocation that reaches
\* the work-queue loop empties the queue and returns a verdict; and no node
\* is removed from the queue twice, so that at most n removals happen.
C7_Terminates ==
    /\ \A c \in Calls : (pc[c] = "start") ~> Terminated(c)
    /\ \A c \in Calls : (pc[c] = "loop") ~> (pc[c] = "done" /\ queue[c] = <<>>)
    /\ [](\A c \in Calls : /\ NoDup(visited[c])
                           /\ visited_count[c] = Len(visited[c])
                           /\ visited_count[c] <= n[c])

\* A cyclic sequence has been given its verdict with the queue empty, some
\* nodes visited and some never visited.
C7_Witness ==
    /\ pc[1] = "done"
    /\ result[1] = FALSE
    /\ queue[1] = <<>>
    /\ 0 < visited_count[1]
    /\ visited_count[1] < n[1]

\* The locals of invocation c.
LocalsOf(c) ==
    <<pc[c], parent_map[c], id_to_index[c], n[c], adj[c], in_degree[c], queue[c],
      visited_count[c], visited[c], result[c], error[c]>>

\* The list objects invocation c holds in parent_map.
HeldObjects(c) == {parent_map[c][i].value.obj : i \in 1..Len(parent_map[c])}

\* C8: with the steps of two invocations interleaved, no step writes the
\* caller's declaration sequences, every step changes the locals of one
\* invocation only, parent_map holds copies and none of the caller's list
\* objects, and an invocation that has ended has returned or raised exactly
\* what it does when run alone.
C8_InvocationsIndependent ==
    [][ /\ commit_list' = commit_list
        /\ \E c \in Calls : \A d \in Calls \ {c} : LocalsOf(d)' = LocalsOf(d)
        /\ \A c \in Calls :
              /\ \A o \in HeldObjects(c)' : o[1] = "copy"
              /\ Terminated(c)' => Outcome(c)' = RunOutcome(commit_list[c]) ]_vars

\* Both invocations are in the middle of their traversals, of different
\* declaration sequences.
C8_Witness ==
    /\ commit_list[1] # commit_list[2]
    /\ pc[1] = "loop" /\ pc[2] = "loop"
    /\ visited_count[1] >= 1 /\ queue[1] # <<>>
    /\ visited_count[2] >= 1 /\ queue[2] # <<>>

====
